---- MODULE Spec2Model ----
(***************************************************************************)
(* Model of the e-learning front-end:                                      *)
(*   - the educator course builder (AddCourse.jsx): the draft, the chapter *)
(*     and lecture editor, the lecture modal, the thumbnail, and the       *)
(*     asynchronous submit with its responses;                             *)
(*   - the shared application state provider (AppContext): the reaction to *)
(*     authentication transitions and the asynchronous profile and         *)
(*     enrollment fetches.                                                 *)
(* Event handlers run to completion on the state of the latest render; an  *)
(* async function is a sequence of steps, one per await.                   *)
(***************************************************************************)
EXTENDS Integers, Sequences, FiniteSets, TLC

VARIABLES
  \* ---- AddCourse.jsx component state ----
  courseTitle,        \* string, as a sequence of characters
  coursePrice,
  discount,
  image,              \* NullFile or a File
  imagePreview,       \* 0 is "", k > 0 is the k-th object URL created
  chapters,           \* sequence of chapter records
  showPopup,
  currentChapterId,   \* 0 is null
  lectureDetails,
  editorHTML,         \* quillRef.current.root.innerHTML
  uniq,               \* number of tokens uniqid() has handed out
  urlCount,           \* number of URL.createObjectURL calls
  revoked,            \* url -> number of URL.revokeObjectURL calls on it
  submits,            \* handleSubmit calls suspended at an await
  mounted,            \* the AddCourse component is rendered
  \* ---- AppContext provider state ----
  isClerkReady,
  user,               \* NoUser or a user id
  effectPending,      \* the [user, isClerkReady] effect is scheduled
  allCourses,
  isEducator,
  enrolledCourses,
  userData,
  userDataLoading,
  fetches,            \* provider fetches suspended at an await
  \* ---- a call of one of the provider's pure functions ----
  calcCourse,         \* the course passed to the function
  calcResult,         \* what the function returned
  \* ---- observation ----
  toast,              \* notification shown by the latest step
  lastOp              \* handler (or continuation) run by the latest step

builderVars == <<courseTitle, coursePrice, discount, image, imagePreview,
                 chapters, showPopup, currentChapterId, lectureDetails,
                 editorHTML, uniq, urlCount, revoked, submits, mounted>>
contextVars == <<isClerkReady, user, effectPending, allCourses, isEducator,
                 enrolledCourses, userData, userDataLoading, fetches>>
calcVars == <<calcCourse, calcResult>>
vars == <<builderVars, contextVars, calcVars, toast, lastOp>>

-----------------------------------------------------------------------------
(* Bounds *)

MaxTokens == 3      \* uniqid() calls in one run
MaxPreviews == 2    \* URL.createObjectURL calls in one run
MaxSubmits == 1     \* handleSubmit calls in flight at once
MaxOverlap == 2     \* handleSubmit calls in flight when they may overlap
MaxFetches == 3     \* provider fetches in flight at once

-----------------------------------------------------------------------------
(* Strings and JavaScript coercions *)

IsSpace(c) == c = " "

RECURSIVE TrimStart(_)
TrimStart(s) ==
  IF s # <<>> /\ IsSpace(Head(s)) THEN TrimStart(Tail(s)) ELSE s

RECURSIVE TrimEnd(_)
TrimEnd(s) ==
  IF s # <<>> /\ IsSpace(s[Len(s)])
    THEN TrimEnd(SubSeq(s, 1, Len(s) - 1))
    ELSE s

\* String.prototype.trim
Trim(s) == TrimEnd(TrimStart(s))

\* truthiness of a string: the empty string is falsy
Truthy(s) == s # <<>>

\* Number(s) for the values a number input hands over
ToNumber(s) ==
  CASE s = ""   -> 0
    [] s = "0"  -> 0
    [] s = "-1" -> -1
    [] s = "5"  -> 5

-----------------------------------------------------------------------------
(* Notifications *)

NoToast == "none"
MsgLectureTitle == "Please enter lecture title"
MsgLectureDuration == "Please enter valid lecture duration"
MsgLectureUrl == "Please enter lecture URL"
MsgImageType == "Please select a valid image file"
MsgImageSize == "Image file size should be less than 5MB"
MsgCourseTitle == "Please enter course title"
MsgThumbnail == "Please select a course thumbnail"
MsgDescription == "Please enter course description"
MsgNoChapter == "Please add at least one chapter"
MsgNoLecture == "All chapters must have at least one lecture"
MsgCourseAdded == "Course added"
MsgServerError == "server message"
MsgAddFailed == "Failed to add course"


-----------------------------------------------------------------------------
(* Values of the course builder *)

NullFile == [isNull |-> TRUE]

MaxImageSize == 5 * 1024 * 1024

PngSmall == [type |-> <<"image", "/", "png">>, size |-> 2 * 1024 * 1024]
PngLimit == [type |-> <<"image", "/", "png">>, size |-> MaxImageSize]
PngBig   == [type |-> <<"image", "/", "png">>, size |-> MaxImageSize + 1]
TextFile == [type |-> <<"text", "/", "plain">>, size |-> 1024]

Files == {PngSmall, PngLimit, PngBig, TextFile}

\* String.prototype.startsWith
StartsWith(s, prefix) ==
  /\ Len(s) >= Len(prefix)
  /\ SubSeq(s, 1, Len(prefix)) = prefix

EmptyHTML == <<>>                    \* innerHTML after the reset
BlankHTML == <<"<p><br></p>">>       \* an editor holding no text
SomeHTML  == <<"<p>d</p>">>

EmptyStr == <<>>

EmptyLectureDetails ==
  [lectureTitle |-> EmptyStr, lectureDuration |-> "",
   lectureUrl |-> EmptyStr, isPreviewFree |-> FALSE]

TitleInputs == {<<" ">>, <<" ", "T">>}
PriceInputs == {100}
DiscountInputs == {10}
PromptResults ==
  {[cancelled |-> TRUE, text |-> EmptyStr],
   [cancelled |-> FALSE, text |-> EmptyStr],
   [cancelled |-> FALSE, text |-> <<"C">>]}
LectureTitleInputs == {EmptyStr, <<" ">>, <<"L", " ">>}
LectureDurationInputs == {"", "0", "-1", "5"}
LectureUrlInputs == {EmptyStr, <<" ", "u">>}

ChapterIds(chs) == {chs[i].chapterId : i \in 1..Len(chs)}

-----------------------------------------------------------------------------
(* handleChapter *)

\* the order given to a new chapter: one more than the last chapter's
\* NextChapterOrder taken from the number of chapters
NextChapterOrderByCount(chs) == Len(chs) + 1

NextChapterOrder(chs) ==
  IF Len(chs) > 0 THEN chs[Len(chs)].chapterOrder + 1 ELSE 1

NewChapter(id, title, chs) ==
  [chapterId |-> id, chapterTitle |-> title, chapterContent |-> <<>>,
   collapsed |-> FALSE, chapterOrder |-> NextChapterOrder(chs)]

\* WithoutChapter with the chapters left renumbered
WithoutChapterRenumbered(chs, id) ==
  LET left == SelectSeq(chs, LAMBDA c : c.chapterId # id)
  IN  [i \in 1..Len(left) |-> [left[i] EXCEPT !.chapterOrder = i]]

\* Array.prototype.filter on the chapter id
WithoutChapter(chs, id) ==
  SelectSeq(chs, LAMBDA c : c.chapterId # id)

\* ToggledChapters with every chapter toggled
ToggledChaptersAll(chs, id) ==
  [i \in 1..Len(chs) |-> [chs[i] EXCEPT !.collapsed = ~chs[i].collapsed]]

ToggledChapters(chs, id) ==
  [i \in 1..Len(chs) |->
     IF chs[i].chapterId = id
       THEN [chs[i] EXCEPT !.collapsed = ~chs[i].collapsed]
       ELSE chs[i]]

\* handleChapter("add"): prompt() answered with r
AddChapter(r) ==
  /\ mounted
  /\ lastOp' = "addChapter"
  /\ toast' = NoToast
  /\ IF ~r.cancelled /\ Truthy(r.text)
       THEN /\ uniq < MaxTokens
            /\ uniq' = uniq + 1
            /\ chapters' = Append(chapters, NewChapter(uniq + 1, r.text, chapters))
       ELSE UNCHANGED <<uniq, chapters>>
  /\ UNCHANGED <<courseTitle, coursePrice, discount, image, imagePreview,
                 showPopup, currentChapterId, lectureDetails, editorHTML,
                 urlCount, revoked, submits, mounted,
                 contextVars, calcVars>>

\* handleChapter("remove", id)
RemoveChapter(id) ==
  /\ mounted
  /\ lastOp' = "removeChapter"
  /\ toast' = NoToast
  /\ chapters' = WithoutChapter(chapters, id)
  /\ UNCHANGED <<courseTitle, coursePrice, discount, image, imagePreview,
                 showPopup, currentChapterId, lectureDetails, editorHTML,
                 uniq, urlCount, revoked, submits, mounted,
                 contextVars, calcVars>>

\* handleChapter("toggle", id)
ToggleChapter(id) ==
  /\ mounted
  /\ lastOp' = "toggleChapter"
  /\ toast' = NoToast
  /\ chapters' = ToggledChapters(chapters, id)
  /\ UNCHANGED <<courseTitle, coursePrice, discount, image, imagePreview,
                 showPopup, currentChapterId, lectureDetails, editorHTML,
                 uniq, urlCount, revoked, submits, mounted,
                 contextVars, calcVars>>

-----------------------------------------------------------------------------
(* handleLecture *)

\* RemoveLectureAt without the renumbering loop
RemoveLectureAtKeepingOrders(content, pos) ==
  [i \in 1..(Len(content) - 1) |->
     IF i < pos THEN content[i] ELSE content[i + 1]]

\* splice(pos, 1) on a copy, then lectureOrder = index + 1 on what is left
\* (pos counts from 1 here, lectureIndex from 0 in the source)
RemoveLectureAt(content, pos) ==
  LET left == [i \in 1..(Len(content) - 1) |->
                 IF i < pos THEN content[i] ELSE content[i + 1]]
  IN  [i \in 1..Len(left) |-> [left[i] EXCEPT !.lectureOrder = i]]

\* ChaptersWithoutLecture with the last lecture removed, whatever the position
ChaptersWithoutLastLecture(chs, id, pos) ==
  [i \in 1..Len(chs) |->
     IF chs[i].chapterId = id
       THEN [chs[i] EXCEPT
               !.chapterContent =
                 RemoveLectureAt(chs[i].chapterContent,
                                 Len(chs[i].chapterContent))]
       ELSE chs[i]]

ChaptersWithoutLecture(chs, id, pos) ==
  [i \in 1..Len(chs) |->
     IF chs[i].chapterId = id
       THEN [chs[i] EXCEPT
               !.chapterContent = RemoveLectureAt(chs[i].chapterContent, pos)]
       ELSE chs[i]]

\* handleLecture("add", id): opens the modal for the chapter
OpenLecture(id) ==
  /\ mounted
  /\ lastOp' = "addLecture"
  /\ toast' = NoToast
  /\ currentChapterId' = id
  /\ showPopup' = TRUE
  /\ UNCHANGED <<courseTitle, coursePrice, discount, image, imagePreview,
                 chapters, lectureDetails, editorHTML, uniq, urlCount,
                 revoked, submits, mounted,
                 contextVars, calcVars>>

\* handleLecture("remove", id, pos - 1)
RemoveLecture(id, pos) ==
  /\ mounted
  /\ lastOp' = "removeLecture"
  /\ toast' = NoToast
  /\ chapters' = ChaptersWithoutLecture(chapters, id, pos)
  /\ UNCHANGED <<courseTitle, coursePrice, discount, image, imagePreview,
                 showPopup, currentChapterId, lectureDetails, editorHTML,
                 uniq, urlCount, revoked, submits, mounted,
                 contextVars, calcVars>>

-----------------------------------------------------------------------------
(* The lecture modal and handleSaveLecture *)

\* the onChange handlers of the modal's inputs
SetLectureDetails(field, value) ==
  /\ mounted
  /\ showPopup
  /\ lastOp' = "input"
  /\ toast' = NoToast
  /\ lectureDetails' = [lectureDetails EXCEPT ![field] = value]
  /\ UNCHANGED <<courseTitle, coursePrice, discount, image, imagePreview,
                 chapters, showPopup, currentChapterId, editorHTML, uniq,
                 urlCount, revoked, submits, mounted,
                 contextVars, calcVars>>

\* the Cancel button and the close icon
CloseLecture ==
  /\ mounted
  /\ showPopup
  /\ lastOp' = "closeLecture"
  /\ toast' = NoToast
  /\ showPopup' = FALSE
  /\ currentChapterId' = 0
  /\ lectureDetails' = EmptyLectureDetails
  /\ UNCHANGED <<courseTitle, coursePrice, discount, image, imagePreview,
                 chapters, editorHTML, uniq, urlCount, revoked, submits,
                 mounted,
                 contextVars, calcVars>>

\* LectureError testing the duration for presence only
LectureErrorNoRange(d) ==
  IF ~Truthy(Trim(d.lectureTitle)) THEN MsgLectureTitle
  ELSE IF d.lectureDuration = "" THEN MsgLectureDuration
  ELSE IF ~Truthy(Trim(d.lectureUrl)) THEN MsgLectureUrl
  ELSE NoToast

\* the validation of handleSaveLecture: the message of the first rule that
\* fails, NoToast when the details pass
LectureError(d) ==
  IF ~Truthy(Trim(d.lectureTitle)) THEN MsgLectureTitle
  ELSE IF d.lectureDuration = "" \/ ToNumber(d.lectureDuration) <= 0
    THEN MsgLectureDuration
  ELSE IF ~Truthy(Trim(d.lectureUrl)) THEN MsgLectureUrl
  ELSE NoToast

NewLecture(id, d, content) ==
  [lectureId |-> id,
   lectureTitle |-> Trim(d.lectureTitle),
   lectureDuration |-> ToNumber(d.lectureDuration),
   lectureUrl |-> Trim(d.lectureUrl),
   isPreviewFree |-> d.isPreviewFree,
   lectureOrder |-> Len(content) + 1]

\* ChaptersWithLecture without the test on the chapter id
ChaptersWithLectureEverywhere(chs, target, id, d) ==
  [i \in 1..Len(chs) |->
     [chs[i] EXCEPT
        !.chapterContent =
           Append(chs[i].chapterContent,
                  NewLecture(id, d, chs[i].chapterContent))]]

\* chapters.map of handleSaveLecture; uniqid() runs only for the target
ChaptersWithLecture(chs, target, id, d) ==
  [i \in 1..Len(chs) |->
     IF chs[i].chapterId = target
       THEN [chs[i] EXCEPT
               !.chapterContent =
                  Append(chs[i].chapterContent,
                         NewLecture(id, d, chs[i].chapterContent))]
       ELSE chs[i]]

\* handleSaveLecture, from the modal's Add Lecture button
SaveLecture ==
  /\ mounted
  /\ showPopup
  /\ lastOp' = "saveLecture"
  /\ IF currentChapterId = 0
       THEN /\ toast' = NoToast
            /\ UNCHANGED <<chapters, showPopup, currentChapterId,
                           lectureDetails, uniq>>
     ELSE IF LectureError(lectureDetails) # NoToast
       THEN /\ toast' = LectureError(lectureDetails)
            /\ UNCHANGED <<chapters, showPopup, currentChapterId,
                           lectureDetails, uniq>>
     ELSE /\ toast' = NoToast
          /\ IF currentChapterId \in ChapterIds(chapters)
               THEN /\ uniq < MaxTokens
                    /\ uniq' = uniq + 1
               ELSE UNCHANGED uniq
          /\ chapters' = ChaptersWithLecture(chapters, currentChapterId,
                                             uniq + 1, lectureDetails)
          /\ showPopup' = FALSE
          /\ currentChapterId' = 0
          /\ lectureDetails' = EmptyLectureDetails
  /\ UNCHANGED <<courseTitle, coursePrice, discount, image, imagePreview,
                 editorHTML, urlCount, revoked, submits, mounted,
                 contextVars, calcVars>>

-----------------------------------------------------------------------------
(* Course fields, the description editor and the thumbnail *)

SetCourseTitle(v) ==
  /\ mounted
  /\ lastOp' = "input"
  /\ toast' = NoToast
  /\ courseTitle' = v
  /\ UNCHANGED <<coursePrice, discount, image, imagePreview, chapters,
                 showPopup, currentChapterId, lectureDetails, editorHTML,
                 uniq, urlCount, revoked, submits, mounted,
                 contextVars, calcVars>>

SetCoursePrice(v) ==
  /\ mounted
  /\ lastOp' = "input"
  /\ toast' = NoToast
  /\ coursePrice' = v
  /\ UNCHANGED <<courseTitle, discount, image, imagePreview, chapters,
                 showPopup, currentChapterId, lectureDetails, editorHTML,
                 uniq, urlCount, revoked, submits, mounted,
                 contextVars, calcVars>>

SetDiscount(v) ==
  /\ mounted
  /\ lastOp' = "input"
  /\ toast' = NoToast
  /\ discount' = v
  /\ UNCHANGED <<courseTitle, coursePrice, image, imagePreview, chapters,
                 showPopup, currentChapterId, lectureDetails, editorHTML,
                 uniq, urlCount, revoked, submits, mounted,
                 contextVars, calcVars>>

\* the user edits the description in the Quill editor
EditDescription(v) ==
  /\ mounted
  /\ lastOp' = "input"
  /\ toast' = NoToast
  /\ editorHTML' = v
  /\ UNCHANGED <<courseTitle, coursePrice, discount, image, imagePreview,
                 chapters, showPopup, currentChapterId, lectureDetails,
                 uniq, urlCount, revoked, submits, mounted,
                 contextVars, calcVars>>

\* URL.revokeObjectURL(url), guarded by "if (url)" at each call site
RevokeObjectURL(rev, url) ==
  IF url # 0 THEN [rev EXCEPT ![url] = rev[url] + 1] ELSE rev

\* ImageError with the size rule left out
ImageErrorNoSizeRule(file) ==
  IF ~StartsWith(file.type, <<"image", "/">>) THEN MsgImageType
  ELSE NoToast

\* the validation of handleImageChange
ImageError(file) ==
  IF ~StartsWith(file.type, <<"image", "/">>) THEN MsgImageType
  ELSE IF file.size > MaxImageSize THEN MsgImageSize
  ELSE NoToast

\* handleImageChange with the chosen file; on accept the handler revokes the
\* previous preview, and the re-render with the new preview runs the cleanup
\* of the [imagePreview] effect, which revokes the previous preview as well
SetThumbnail(file) ==
  /\ mounted
  /\ lastOp' = "setThumbnail"
  /\ toast' = ImageError(file)
  /\ IF ImageError(file) # NoToast
       THEN UNCHANGED <<image, imagePreview, urlCount, revoked>>
       ELSE /\ urlCount < MaxPreviews
            /\ image' = file
            /\ urlCount' = urlCount + 1
            /\ imagePreview' = urlCount + 1
            /\ revoked' = RevokeObjectURL(RevokeObjectURL(revoked, imagePreview),
                                          imagePreview)
  /\ UNCHANGED <<courseTitle, coursePrice, discount, chapters, showPopup,
                 currentChapterId, lectureDetails, editorHTML, uniq, submits,
                 mounted,
                 contextVars, calcVars>>

-----------------------------------------------------------------------------
(* handleSubmit *)

\* SubmitError without the rule on chapters that hold no lecture
SubmitErrorNoLectureRule(title, img, html, chs) ==
  IF ~Truthy(Trim(title)) THEN MsgCourseTitle
  ELSE IF img = NullFile THEN MsgThumbnail
  ELSE IF ~Truthy(Trim(html)) THEN MsgDescription
  ELSE IF Len(chs) = 0 THEN MsgNoChapter
  ELSE NoToast

\* SubmitError without the rule on the number of chapters
SubmitErrorNoChapterRule(title, img, html, chs) ==
  IF ~Truthy(Trim(title)) THEN MsgCourseTitle
  ELSE IF img = NullFile THEN MsgThumbnail
  ELSE IF ~Truthy(Trim(html)) THEN MsgDescription
  ELSE IF SelectSeq(chs, LAMBDA c : Len(c.chapterContent) = 0) # <<>>
    THEN MsgNoLecture
  ELSE NoToast

\* SubmitError testing the description before the thumbnail
SubmitErrorDescriptionFirst(title, img, html, chs) ==
  IF ~Truthy(Trim(title)) THEN MsgCourseTitle
  ELSE IF ~Truthy(Trim(html)) THEN MsgDescription
  ELSE IF img = NullFile THEN MsgThumbnail
  ELSE IF Len(chs) = 0 THEN MsgNoChapter
  ELSE IF SelectSeq(chs, LAMBDA c : Len(c.chapterContent) = 0) # <<>>
    THEN MsgNoLecture
  ELSE NoToast

\* the validation of handleSubmit: the message of the first rule that fails,
\* NoToast when the draft passes
SubmitError(title, img, html, chs) ==
  IF ~Truthy(Trim(title)) THEN MsgCourseTitle
  ELSE IF img = NullFile THEN MsgThumbnail
  ELSE IF ~Truthy(Trim(html)) THEN MsgDescription
  ELSE IF Len(chs) = 0 THEN MsgNoChapter
  ELSE IF SelectSeq(chs, LAMBDA c : Len(c.chapterContent) = 0) # <<>>
    THEN MsgNoLecture
  ELSE NoToast

CourseData(title, html, price, disc, chs) ==
  [courseTitle |-> Trim(title),
   courseDescription |-> html,
   coursePrice |-> price,
   discount |-> disc,
   courseContent |-> chs]

\* handleSubmit up to its first await: validation, then the form data is
\* built from the draft and the call suspends at getToken()
HandleSubmit(limit) ==
  /\ mounted
  /\ lastOp' = "submit"
  /\ toast' = SubmitError(courseTitle, image, editorHTML, chapters)
  /\ IF SubmitError(courseTitle, image, editorHTML, chapters) # NoToast
       THEN UNCHANGED submits
       ELSE /\ Len(submits) < limit
            /\ submits' = Append(submits,
                 [pc |-> "token",
                  courseData |-> CourseData(courseTitle, editorHTML,
                                            coursePrice, discount, chapters),
                  image |-> image,
                  imagePreview |-> imagePreview])
  /\ UNCHANGED <<courseTitle, coursePrice, discount, image, imagePreview,
                 chapters, showPopup, currentChapterId, lectureDetails,
                 editorHTML, uniq, urlCount, revoked, mounted,
                 contextVars, calcVars>>

\* a submit of the form
Submit == HandleSubmit(MaxSubmits)

\* a submit of the form, which nothing disables while earlier ones are
\* suspended
SubmitOverlapping == HandleSubmit(MaxOverlap)

RemoveAt(seq, i) ==
  [j \in 1..(Len(seq) - 1) |-> IF j < i THEN seq[j] ELSE seq[j + 1]]

\* getToken() resolves: axios.post issues the request
SubmitPost(i) ==
  /\ i \in 1..Len(submits)
  /\ submits[i].pc = "token"
  /\ lastOp' = "submitPost"
  /\ toast' = NoToast
  /\ submits' = [submits EXCEPT ![i].pc = "post"]
  /\ UNCHANGED <<courseTitle, coursePrice, discount, image, imagePreview,
                 chapters, showPopup, currentChapterId, lectureDetails,
                 editorHTML, uniq, urlCount, revoked, mounted,
                 contextVars, calcVars>>

\* SubmitSuccess with the discount left out of the reset
SubmitSuccessKeepingDiscount(i) ==
  /\ mounted
  /\ i \in 1..Len(submits)
  /\ submits[i].pc = "post"
  /\ lastOp' = "submitSuccess"
  /\ toast' = MsgCourseAdded
  /\ courseTitle' = EmptyStr
  /\ coursePrice' = 0
  /\ image' = NullFile
  /\ revoked' = RevokeObjectURL(RevokeObjectURL(revoked, submits[i].imagePreview),
                                imagePreview)
  /\ imagePreview' = 0
  /\ chapters' = <<>>
  /\ editorHTML' = EmptyHTML
  /\ submits' = RemoveAt(submits, i)
  /\ UNCHANGED <<discount, showPopup, currentChapterId, lectureDetails, uniq,
                 urlCount, mounted,
                 contextVars, calcVars>>

\* the response has data.success true: the draft is reset; the explicit
\* revoke is of the preview captured when the call started, the cleanup of
\* the [imagePreview] effect revokes the preview being replaced by ""
SubmitSuccess(i) ==
  /\ mounted
  /\ i \in 1..Len(submits)
  /\ submits[i].pc = "post"
  /\ lastOp' = "submitSuccess"
  /\ toast' = MsgCourseAdded
  /\ courseTitle' = EmptyStr
  /\ coursePrice' = 0
  /\ discount' = 0
  /\ image' = NullFile
  /\ revoked' = RevokeObjectURL(RevokeObjectURL(revoked, submits[i].imagePreview),
                                imagePreview)
  /\ imagePreview' = 0
  /\ chapters' = <<>>
  /\ editorHTML' = EmptyHTML
  /\ submits' = RemoveAt(submits, i)
  /\ UNCHANGED <<showPopup, currentChapterId, lectureDetails, uniq, urlCount,
                 mounted,
                 contextVars, calcVars>>

\* FailureKeeps with the chapters dropped
FailureDropsChapters ==
  /\ chapters' = <<>>
  /\ UNCHANGED <<courseTitle, coursePrice, discount, image, imagePreview,
                 editorHTML, revoked>>

\* what the failure paths of handleSubmit do to the draft: nothing
FailureKeeps ==
  UNCHANGED <<courseTitle, coursePrice, discount, image, imagePreview,
              chapters, editorHTML, revoked>>

\* the response has data.success false: toast.error(data.message)
SubmitRefused(i) ==
  /\ i \in 1..Len(submits)
  /\ submits[i].pc = "post"
  /\ lastOp' = "submitRefused"
  /\ toast' = MsgServerError
  /\ FailureKeeps
  /\ submits' = RemoveAt(submits, i)
  /\ UNCHANGED <<showPopup, currentChapterId, lectureDetails, uniq, urlCount,
                 mounted,
                 contextVars, calcVars>>

\* getToken() or axios.post rejects: the catch block notifies, with the
\* server's message when the error carries one
SubmitThrows(i, msg) ==
  /\ i \in 1..Len(submits)
  /\ lastOp' = "submitThrows"
  /\ toast' = msg
  /\ FailureKeeps
  /\ submits' = RemoveAt(submits, i)
  /\ UNCHANGED <<showPopup, currentChapterId, lectureDetails, uniq, urlCount,
                 mounted,
                 contextVars, calcVars>>

\* the response has data.success true after the component is gone: the state
\* setters have no component to update and no effect cleanup is left to run;
\* the revoke of the preview captured when the call started is still made
SubmitSuccessUnmounted(i) ==
  /\ ~mounted
  /\ i \in 1..Len(submits)
  /\ submits[i].pc = "post"
  /\ lastOp' = "submitSuccess"
  /\ toast' = MsgCourseAdded
  /\ revoked' = RevokeObjectURL(revoked, submits[i].imagePreview)
  /\ submits' = RemoveAt(submits, i)
  /\ UNCHANGED <<courseTitle, coursePrice, discount, image, imagePreview,
                 chapters, showPopup, currentChapterId, lectureDetails,
                 editorHTML, uniq, urlCount, mounted, contextVars, calcVars>>

\* Unmount with the cleanup of the [imagePreview] effect left out
UnmountKeepingPreview ==
  /\ mounted
  /\ mounted' = FALSE
  /\ lastOp' = "unmount"
  /\ toast' = NoToast
  /\ UNCHANGED <<courseTitle, coursePrice, discount, image, imagePreview,
                 chapters, showPopup, currentChapterId, lectureDetails,
                 editorHTML, uniq, urlCount, revoked, submits, contextVars, calcVars>>

\* the component is torn down: the cleanup of the [imagePreview] effect runs
\* and revokes the current preview
Unmount ==
  /\ mounted
  /\ mounted' = FALSE
  /\ lastOp' = "unmount"
  /\ toast' = NoToast
  /\ revoked' = RevokeObjectURL(revoked, imagePreview)
  /\ UNCHANGED <<courseTitle, coursePrice, discount, image, imagePreview,
                 chapters, showPopup, currentChapterId, lectureDetails,
                 editorHTML, uniq, urlCount, submits, contextVars, calcVars>>

-----------------------------------------------------------------------------
(* Values of the shared application state provider *)

NoUser == "none"
Users == {"A", "B"}
NullUserData == [isNull |-> TRUE]

\* the profile the backend holds for a user
ServerUser(u) == [_id |-> u, clerkId |-> u, enrolledCourses |-> <<>>]

\* the profile built from the session user's claims
LocalUser(u) ==
  [clerkId |-> u, email |-> <<u, "@">>, firstName |-> <<u, "f">>,
   lastName |-> <<u, "l">>, enrolledCourses |-> <<>>]

CourseLists == {<<>>, <<"c1", "c2">>}

\* Array.prototype.reverse
Reverse(seq) == [i \in 1..Len(seq) |-> seq[Len(seq) + 1 - i]]

MsgAuthFailed == "Authentication failed. Please login again."
MsgProfileFailed == "Failed to load user profile"
MsgCoursesFailed == "Failed to load courses"
MsgEnrolledFailed == "Failed to load enrolled courses"

builderUnchanged == UNCHANGED <<builderVars, calcVars>>

-----------------------------------------------------------------------------
(* Authentication transitions and the [user, isClerkReady] effect *)

\* Clerk finishes loading, with or without a signed-in user
ClerkLoaded(u) ==
  /\ ~isClerkReady
  /\ lastOp' = "clerkLoaded"
  /\ toast' = NoToast
  /\ isClerkReady' = TRUE
  /\ user' = u
  /\ effectPending' = TRUE
  /\ UNCHANGED <<allCourses, isEducator, enrolledCourses, userData,
                 userDataLoading, fetches>>
  /\ builderUnchanged

SignIn(u) ==
  /\ isClerkReady
  /\ user = NoUser
  /\ lastOp' = "signIn"
  /\ toast' = NoToast
  /\ user' = u
  /\ effectPending' = TRUE
  /\ UNCHANGED <<isClerkReady, allCourses, isEducator, enrolledCourses,
                 userData, userDataLoading, fetches>>
  /\ builderUnchanged

SignOut ==
  /\ isClerkReady
  /\ user # NoUser
  /\ lastOp' = "signOut"
  /\ toast' = NoToast
  /\ user' = NoUser
  /\ effectPending' = TRUE
  /\ UNCHANGED <<isClerkReady, allCourses, isEducator, enrolledCourses,
                 userData, userDataLoading, fetches>>
  /\ builderUnchanged

\* the setter the context exposes to its consumers
SetIsEducator(b) ==
  /\ lastOp' = "setIsEducator"
  /\ toast' = NoToast
  /\ isEducator' = b
  /\ UNCHANGED <<isClerkReady, user, effectPending, allCourses,
                 enrolledCourses, userData, userDataLoading, fetches>>
  /\ builderUnchanged

\* StartedFetches with the earlier profile and enrollment calls cancelled
StartedFetchesCancellingEarlier(fs, u, ud) ==
  SelectSeq(fs, LAMBDA f : f.kind = "courses")
    \o <<[kind |-> "userData", pc |-> "token", user |-> u],
         [kind |-> "enrolled", pc |-> "token",
          hadUserData |-> (ud # NullUserData)]>>

\* fetchUserData() and fetchUserEnrolledCourses() up to their first await,
\* called with a user present: both suspend at getToken(). The profile call
\* keeps the user of the render it was created in; the enrollment call reads
\* that render's userData only in "if (userData)"
StartedFetches(fs, u, ud) ==
  fs \o <<[kind |-> "userData", pc |-> "token", user |-> u],
          [kind |-> "enrolled", pc |-> "token",
           hadUserData |-> (ud # NullUserData)]>>

\* the profile and enrollment calls in flight
UserFetches(fs) == SelectSeq(fs, LAMBDA f : f.kind # "courses")

\* ClearedState with the enrollment list left as it is
ClearedStateKeepingEnrolled ==
  /\ userData' = NullUserData
  /\ isEducator' = FALSE
  /\ userDataLoading' = FALSE
  /\ UNCHANGED enrolledCourses

\* the else branch of the effect: no user, the derived state is cleared
ClearedState ==
  /\ userData' = NullUserData
  /\ isEducator' = FALSE
  /\ enrolledCourses' = <<>>
  /\ userDataLoading' = FALSE

\* the effect of useEffect(..., [user, isClerkReady])
AuthEffect ==
  /\ effectPending
  /\ lastOp' = "authEffect"
  /\ toast' = NoToast
  /\ effectPending' = FALSE
  /\ IF ~isClerkReady
       THEN UNCHANGED <<isEducator, enrolledCourses, userData,
                        userDataLoading, fetches>>
     ELSE IF user # NoUser
       THEN /\ Len(UserFetches(fetches)) + 2 <= MaxFetches
            /\ fetches' = StartedFetches(fetches, user, userData)
            /\ userDataLoading' = TRUE
            /\ UNCHANGED <<isEducator, enrolledCourses, userData>>
     ELSE /\ ClearedState
          /\ UNCHANGED fetches
  /\ UNCHANGED <<isClerkReady, user, allCourses>>
  /\ builderUnchanged

-----------------------------------------------------------------------------
(* fetchAllCourses *)

\* the course lists GET /api/course/all answers with
CatalogLists == {<<>>, <<"c1">>, <<"c2">>, <<"c1", "c2">>}

\* the catalog calls in flight
CourseFetches(fs) == SelectSeq(fs, LAMBDA f : f.kind = "courses")

\* fetchAllCourses() called by a consumer of the context: the call suspends
\* at axios.get
FetchAllCourses ==
  /\ Len(CourseFetches(fetches)) < MaxFetches
  /\ lastOp' = "fetchAllCourses"
  /\ toast' = NoToast
  /\ fetches' = Append(fetches, [kind |-> "courses"])
  /\ UNCHANGED <<isClerkReady, user, effectPending, allCourses, isEducator,
                 enrolledCourses, userData, userDataLoading>>
  /\ builderUnchanged

\* CoursesFailed with the catalog emptied
CoursesFailedClearing(i) ==
  /\ i \in 1..Len(fetches)
  /\ fetches[i].kind = "courses"
  /\ lastOp' = "coursesFailed"
  /\ toast' = MsgCoursesFailed
  /\ allCourses' = <<>>
  /\ fetches' = RemoveAt(fetches, i)
  /\ UNCHANGED <<isClerkReady, user, effectPending, isEducator,
                 enrolledCourses, userData, userDataLoading>>
  /\ builderUnchanged

\* the response of GET /api/course/all with data.success true
CoursesLoaded(i, courses) ==
  /\ i \in 1..Len(fetches)
  /\ fetches[i].kind = "courses"
  /\ lastOp' = "coursesLoaded"
  /\ toast' = NoToast
  /\ allCourses' = courses
  /\ fetches' = RemoveAt(fetches, i)
  /\ UNCHANGED <<isClerkReady, user, effectPending, isEducator,
                 enrolledCourses, userData, userDataLoading>>
  /\ builderUnchanged

\* data.success false, or the request throws
CoursesFailed(i) ==
  /\ i \in 1..Len(fetches)
  /\ fetches[i].kind = "courses"
  /\ lastOp' = "coursesFailed"
  /\ toast' = MsgCoursesFailed
  /\ fetches' = RemoveAt(fetches, i)
  /\ UNCHANGED <<isClerkReady, user, effectPending, allCourses, isEducator,
                 enrolledCourses, userData, userDataLoading>>
  /\ builderUnchanged

-----------------------------------------------------------------------------
(* fetchUserData *)

\* getToken() resolves with a token, which takes a live session of the
\* call's user: the profile request is sent
UserDataToken(i) ==
  /\ i \in 1..Len(fetches)
  /\ fetches[i].kind = "userData"
  /\ fetches[i].pc = "token"
  /\ user = fetches[i].user
  /\ lastOp' = "token"
  /\ toast' = NoToast
  /\ fetches' = [fetches EXCEPT ![i].pc = "http"]
  /\ UNCHANGED <<isClerkReady, user, effectPending, allCourses, isEducator,
                 enrolledCourses, userData, userDataLoading>>
  /\ builderUnchanged

\* UserDataNoToken with the loading flag left set
UserDataNoTokenKeepingLoading(i) ==
  /\ i \in 1..Len(fetches)
  /\ fetches[i].kind = "userData"
  /\ fetches[i].pc = "token"
  /\ lastOp' = "userDataNoToken"
  /\ toast' = MsgAuthFailed
  /\ fetches' = RemoveAt(fetches, i)
  /\ UNCHANGED <<isClerkReady, user, effectPending, allCourses, isEducator,
                 enrolledCourses, userData, userDataLoading>>
  /\ builderUnchanged

\* getToken() resolves with no token
UserDataNoToken(i) ==
  /\ i \in 1..Len(fetches)
  /\ fetches[i].kind = "userData"
  /\ fetches[i].pc = "token"
  /\ lastOp' = "userDataNoToken"
  /\ toast' = MsgAuthFailed
  /\ userDataLoading' = FALSE
  /\ fetches' = RemoveAt(fetches, i)
  /\ UNCHANGED <<isClerkReady, user, effectPending, allCourses, isEducator,
                 enrolledCourses, userData>>
  /\ builderUnchanged

ProfileOutcomes == {"user", "nouser", "401", "404", "error"}

\* UserDataAfter with the 404 branch left out
UserDataAfterNo404(outcome, u, prior) ==
  CASE outcome = "user"   -> ServerUser(u)
    [] outcome = "nouser" -> LocalUser(u)
    [] outcome = "401"    -> NullUserData
    [] OTHER              -> prior

\* what setUserData receives for an outcome of GET /api/user/data, for the
\* call of user u; prior is the userData before the step
UserDataAfter(outcome, u, prior) ==
  CASE outcome = "user"   -> ServerUser(u)
    [] outcome = "nouser" -> LocalUser(u)
    [] outcome = "401"    -> NullUserData
    [] outcome = "404"    -> LocalUser(u)
    [] OTHER              -> prior

UserDataToast(outcome) ==
  CASE outcome = "401"   -> MsgAuthFailed
    [] outcome = "error" -> MsgProfileFailed
    [] OTHER             -> NoToast

\* the profile request settles, or getToken() or the request throws an error
\* without a 401 or 404 status; the finally block clears the loading flag
UserDataResponse(i, outcome) ==
  /\ i \in 1..Len(fetches)
  /\ fetches[i].kind = "userData"
  /\ fetches[i].pc = "http" \/ outcome = "error"
  /\ lastOp' = "userDataResponse"
  /\ toast' = UserDataToast(outcome)
  /\ userData' = UserDataAfter(outcome, fetches[i].user, userData)
  /\ userDataLoading' = FALSE
  /\ fetches' = RemoveAt(fetches, i)
  /\ UNCHANGED <<isClerkReady, user, effectPending, allCourses, isEducator,
                 enrolledCourses>>
  /\ builderUnchanged

-----------------------------------------------------------------------------
(* fetchUserEnrolledCourses *)

\* getToken() resolves with a token, which takes a live session
EnrolledToken(i) ==
  /\ i \in 1..Len(fetches)
  /\ fetches[i].kind = "enrolled"
  /\ fetches[i].pc = "token"
  /\ user # NoUser
  /\ lastOp' = "token"
  /\ toast' = NoToast
  /\ fetches' = [fetches EXCEPT ![i].pc = "http"]
  /\ UNCHANGED <<isClerkReady, user, effectPending, allCourses, isEducator,
                 enrolledCourses, userData, userDataLoading>>
  /\ builderUnchanged

\* getToken() resolves with no token: the call returns silently
EnrolledNoToken(i) ==
  /\ i \in 1..Len(fetches)
  /\ fetches[i].kind = "enrolled"
  /\ fetches[i].pc = "token"
  /\ lastOp' = "enrolledNoToken"
  /\ toast' = NoToast
  /\ fetches' = RemoveAt(fetches, i)
  /\ UNCHANGED <<isClerkReady, user, effectPending, allCourses, isEducator,
                 enrolledCourses, userData, userDataLoading>>
  /\ builderUnchanged

\* the functional update of userData after a successful enrollment response:
\* reverse() has reversed data.enrolledCourses in place before it is read
\* again; hadUserData is the test "if (userData)" on the userData the call
\* captured; spreading a null prev leaves only the enrolledCourses field
MergedUserData(prev, hadUserData, list) ==
  IF hadUserData
    THEN IF prev = NullUserData
           THEN [enrolledCourses |-> Reverse(list)]
           ELSE [prev EXCEPT !.enrolledCourses = Reverse(list)]
    ELSE prev

\* the response of GET /api/user/enrolled-courses with data.success true
EnrolledLoaded(i, list) ==
  /\ i \in 1..Len(fetches)
  /\ fetches[i].kind = "enrolled"
  /\ fetches[i].pc = "http"
  /\ lastOp' = "enrolledLoaded"
  /\ toast' = NoToast
  /\ enrolledCourses' = Reverse(list)
  /\ userData' = MergedUserData(userData, fetches[i].hadUserData, list)
  /\ fetches' = RemoveAt(fetches, i)
  /\ UNCHANGED <<isClerkReady, user, effectPending, allCourses, isEducator,
                 userDataLoading>>
  /\ builderUnchanged

\* data.success false, or the request throws; quiet says that the failure is
\* "User not found" or a 404, which is not notified
EnrolledFailed(i, quiet) ==
  /\ i \in 1..Len(fetches)
  /\ fetches[i].kind = "enrolled"
  /\ fetches[i].pc = "http"
  /\ lastOp' = "enrolledFailed"
  /\ toast' = IF quiet THEN NoToast ELSE MsgEnrolledFailed
  /\ fetches' = RemoveAt(fetches, i)
  /\ UNCHANGED <<isClerkReady, user, effectPending, allCourses, isEducator,
                 enrolledCourses, userData, userDataLoading>>
  /\ builderUnchanged

-----------------------------------------------------------------------------
(* The pure functions of the context value *)

\* a value that is null or undefined, and a value that is present
None == [has |-> FALSE]
Some(v) == [has |-> TRUE, val |-> v]

\* what a function returns: undefined, a number, or a string of characters
Undefined == [kind |-> "undefined"]
Number(n) == [kind |-> "number", value |-> n]
String(chars) == [kind |-> "string", chars |-> chars]

Digit(d) == <<"0", "1", "2", "3", "4", "5", "6", "7", "8", "9">>[d + 1]

\* (num / den).toFixed(1) for 0 <= num / den < 10: the nearest number of
\* tenths, the larger one on a tie, written with one decimal
toFixed1(num, den) ==
  LET n == (2 * 10 * num + den) \div (2 * den)
  IN  String(<<Digit(n \div 10), ".", Digit(n % 10)>>)

\* courseRatings.reduce((sum, r) => sum + r.rating, 0)
RECURSIVE SumRatings(_)
SumRatings(ratings) ==
  IF ratings = <<>> THEN 0
  ELSE ratings[1].rating + SumRatings(Tail(ratings))

\* calculateRating with the rounding left out of the result
calculateRatingTruncated(course) ==
  IF ~course.has THEN Number(0)
  ELSE IF ~course.val.courseRatings.has THEN Number(0)
  ELSE IF Len(course.val.courseRatings.val) = 0 THEN Number(0)
  ELSE LET total == SumRatings(course.val.courseRatings.val)
           count == Len(course.val.courseRatings.val)
       IN  String(<<Digit(total \div count), ".",
                    Digit(((10 * total) \div count) % 10)>>)

calculateRating(course) ==
  IF ~course.has THEN Number(0)
  ELSE IF ~course.val.courseRatings.has THEN Number(0)
  ELSE IF Len(course.val.courseRatings.val) = 0 THEN Number(0)
  ELSE toFixed1(SumRatings(course.val.courseRatings.val),
                Len(course.val.courseRatings.val))

\* chapter?.chapterContent?.length || 0
ChapterLectures(chapter) ==
  IF ~chapter.has THEN 0
  ELSE IF ~chapter.val.chapterContent.has THEN 0
  ELSE Len(chapter.val.chapterContent.val)

\* courseContent.reduce((sum, chapter) => sum + ..., 0)
RECURSIVE SumLectures(_)
SumLectures(content) ==
  IF content = <<>> THEN 0
  ELSE ChapterLectures(content[1]) + SumLectures(Tail(content))

\* the optional chaining yields undefined for an absent course or an absent
\* courseContent
calculateNoOfLectures(course) ==
  IF ~course.has THEN Undefined
  ELSE IF ~course.val.courseContent.has THEN Undefined
  ELSE Number(SumLectures(course.val.courseContent.val))

Chapter(content) == Some([chapterContent |-> content])
Rating(n) == [rating |-> n]

ContentSamples ==
  {None,
   Some(<<>>),
   Some(<<Chapter(Some(<<"l1", "l2">>))>>),
   Some(<<Chapter(Some(<<"l1">>)), Chapter(None)>>),
   Some(<<Chapter(Some(<<"l1", "l2">>)), Chapter(Some(<<"l3">>))>>),
   Some(<<None, Chapter(Some(<<>>)), Chapter(Some(<<"l1">>))>>)}

RatingSamples ==
  {None,
   Some(<<>>),
   Some(<<Rating(3), Rating(4), Rating(5)>>),
   Some(<<Rating(5)>>),
   Some(<<Rating(4), Rating(5)>>),
   Some(<<Rating(1), Rating(2), Rating(2)>>),
   Some(<<Rating(1), Rating(2), Rating(2), Rating(4)>>),
   Some(<<Rating(5), Rating(5), Rating(4)>>)}

CourseSamples ==
  {None} \cup {Some([courseContent |-> c, courseRatings |-> r]) :
                 c \in ContentSamples, r \in RatingSamples}

\* a consumer of the context calls calculateRating(calcCourse)
CallCalculateRating ==
  /\ lastOp' = "calculateRating"
  /\ toast' = NoToast
  /\ calcResult' = calculateRating(calcCourse)
  /\ UNCHANGED <<builderVars, contextVars, calcCourse>>

\* a consumer of the context calls calculateNoOfLectures(calcCourse)
CallCalculateNoOfLectures ==
  /\ lastOp' = "calculateNoOfLectures"
  /\ toast' = NoToast
  /\ calcResult' = calculateNoOfLectures(calcCourse)
  /\ UNCHANGED <<builderVars, contextVars, calcCourse>>

\* no function of the context value has been called
CalcIdle ==
  /\ calcCourse = None
  /\ calcResult = Undefined

-----------------------------------------------------------------------------
(* Initial state and specifications *)

BuilderInit ==
  /\ courseTitle = EmptyStr
  /\ coursePrice = 0
  /\ discount = 0
  /\ image = NullFile
  /\ imagePreview = 0
  /\ chapters = <<>>
  /\ showPopup = FALSE
  /\ currentChapterId = 0
  /\ lectureDetails = EmptyLectureDetails
  /\ editorHTML = BlankHTML
  /\ uniq = 0
  /\ urlCount = 0
  /\ revoked = [u \in 1..MaxPreviews |-> 0]
  /\ submits = <<>>
  /\ mounted = TRUE

ContextInit ==
  /\ isClerkReady = FALSE
  /\ user = NoUser
  /\ effectPending = TRUE
  /\ allCourses = <<>>
  /\ isEducator = FALSE
  /\ enrolledCourses = <<>>
  /\ userData = NullUserData
  /\ userDataLoading = FALSE
  /\ fetches = <<[kind |-> "courses"]>>

Init ==
  /\ BuilderInit
  /\ ContextInit
  /\ CalcIdle
  /\ toast = NoToast
  /\ lastOp = "mount"

\* the chapter and lecture editor with its modal
EditorNext ==
  \/ \E r \in PromptResults : AddChapter(r)
  \/ \E id \in ChapterIds(chapters) : RemoveChapter(id)
  \/ \E id \in ChapterIds(chapters) : ToggleChapter(id)
  \/ \E id \in ChapterIds(chapters) : OpenLecture(id)
  \/ \E i \in 1..Len(chapters) :
       \E pos \in 1..Len(chapters[i].chapterContent) :
         RemoveLecture(chapters[i].chapterId, pos)
  \/ \E v \in LectureTitleInputs : SetLectureDetails("lectureTitle", v)
  \/ \E v \in LectureDurationInputs : SetLectureDetails("lectureDuration", v)
  \/ \E v \in LectureUrlInputs : SetLectureDetails("lectureUrl", v)
  \/ \E v \in BOOLEAN : SetLectureDetails("isPreviewFree", v)
  \/ CloseLecture
  \/ SaveLecture

SpecEditor == Init /\ [][EditorNext]_vars

\* drafts the chapter editor builds (each is reached under SpecEditor)
SampleLecture(id, order) ==
  [lectureId |-> id, lectureTitle |-> <<"L">>, lectureDuration |-> 5,
   lectureUrl |-> <<"u">>, isPreviewFree |-> FALSE, lectureOrder |-> order]

SampleChapter(id, order, content) ==
  [chapterId |-> id, chapterTitle |-> <<"C">>, chapterContent |-> content,
   collapsed |-> FALSE, chapterOrder |-> order]

SampleDrafts ==
  {[chapters |-> <<>>, uniq |-> 0],
   [chapters |-> <<SampleChapter(1, 1, <<>>)>>, uniq |-> 1],
   [chapters |-> <<SampleChapter(1, 1, <<SampleLecture(2, 1)>>)>>, uniq |-> 2],
   [chapters |-> <<SampleChapter(1, 1, <<SampleLecture(2, 1)>>),
                   SampleChapter(3, 2, <<>>)>>, uniq |-> 3],
   [chapters |-> <<SampleChapter(1, 1, <<SampleLecture(3, 1)>>),
                   SampleChapter(2, 2, <<SampleLecture(4, 1)>>)>>, uniq |-> 4]}

\* the builder with the chapter tree already composed
DraftInit ==
  /\ \E d \in SampleDrafts :
       /\ chapters = d.chapters
       /\ uniq = d.uniq
  /\ courseTitle = EmptyStr
  /\ coursePrice = 0
  /\ discount = 0
  /\ image = NullFile
  /\ imagePreview = 0
  /\ showPopup = FALSE
  /\ currentChapterId = 0
  /\ lectureDetails = EmptyLectureDetails
  /\ editorHTML = BlankHTML
  /\ urlCount = 0
  /\ revoked = [u \in 1..MaxPreviews |-> 0]
  /\ submits = <<>>
  /\ mounted = TRUE
  /\ ContextInit
  /\ CalcIdle
  /\ toast = NoToast
  /\ lastOp = "mount"

\* the course fields, the thumbnail and the submission of the draft
BuilderNext ==
  \/ \E v \in TitleInputs : SetCourseTitle(v)
  \/ \E v \in PriceInputs : SetCoursePrice(v)
  \/ \E v \in DiscountInputs : SetDiscount(v)
  \/ EditDescription(SomeHTML)
  \/ SetThumbnail(PngSmall)
  \/ \E id \in ChapterIds(chapters) : RemoveChapter(id)
  \/ Submit
  \/ \E i \in 1..Len(submits) : SubmitPost(i)
  \/ \E i \in 1..Len(submits) : SubmitSuccess(i)
  \/ \E i \in 1..Len(submits) : SubmitRefused(i)
  \/ \E i \in 1..Len(submits) : \E m \in {MsgServerError, MsgAddFailed} :
       SubmitThrows(i, m)

SpecBuilder == DraftInit /\ [][BuilderNext]_vars

\* the thumbnail and its preview over the life of the component
PreviewNext ==
  \/ \E v \in TitleInputs : SetCourseTitle(v)
  \/ EditDescription(SomeHTML)
  \/ \E f \in Files : SetThumbnail(f)
  \/ Submit
  \/ \E i \in 1..Len(submits) : SubmitPost(i)
  \/ \E i \in 1..Len(submits) : SubmitSuccess(i)
  \/ \E i \in 1..Len(submits) : SubmitSuccessUnmounted(i)
  \/ \E i \in 1..Len(submits) : SubmitRefused(i)
  \/ \E i \in 1..Len(submits) : SubmitThrows(i, MsgAddFailed)
  \/ Unmount

SpecPreview == DraftInit /\ [][PreviewNext]_vars

\* the functions of the context value applied to a course
CalcInit ==
  /\ BuilderInit
  /\ ContextInit
  /\ calcCourse \in CourseSamples
  /\ calcResult = Undefined
  /\ toast = NoToast
  /\ lastOp = "mount"

CalcNext ==
  \/ CallCalculateRating
  \/ CallCalculateNoOfLectures

SpecCalc == CalcInit /\ [][CalcNext]_vars

\* submissions of the form that may overlap
OverlapNext ==
  \/ \E v \in TitleInputs : SetCourseTitle(v)
  \/ EditDescription(SomeHTML)
  \/ SetThumbnail(PngSmall)
  \/ SubmitOverlapping
  \/ \E i \in 1..Len(submits) : SubmitPost(i)
  \/ \E i \in 1..Len(submits) : SubmitSuccess(i)
  \/ \E i \in 1..Len(submits) : SubmitRefused(i)

SpecOverlap == DraftInit /\ [][OverlapNext]_vars

\* the shared application state provider
ContextNext ==
  \/ \E u \in Users \cup {NoUser} : ClerkLoaded(u)
  \/ \E u \in Users : SignIn(u)
  \/ SignOut
  \/ \E b \in BOOLEAN : SetIsEducator(b)
  \/ AuthEffect
  \/ \E i \in 1..Len(fetches) : UserDataToken(i)
  \/ \E i \in 1..Len(fetches) : UserDataNoToken(i)
  \/ \E i \in 1..Len(fetches) : \E o \in ProfileOutcomes :
       UserDataResponse(i, o)
  \/ \E i \in 1..Len(fetches) : EnrolledToken(i)
  \/ \E i \in 1..Len(fetches) : EnrolledNoToken(i)
  \/ \E i \in 1..Len(fetches) : \E l \in CourseLists : EnrolledLoaded(i, l)
  \/ \E i \in 1..Len(fetches) : \E q \in BOOLEAN : EnrolledFailed(i, q)

SpecContext == Init /\ [][ContextNext]_vars

\* the course catalog, loaded on mount and on demand, beside the session
CatalogNext ==
  \/ FetchAllCourses
  \/ \E i \in 1..Len(fetches) : \E c \in CatalogLists : CoursesLoaded(i, c)
  \/ \E i \in 1..Len(fetches) : CoursesFailed(i)
  \/ \E u \in Users \cup {NoUser} : ClerkLoaded(u)
  \/ \E u \in Users : SignIn(u)
  \/ SignOut
  \/ \E b \in BOOLEAN : SetIsEducator(b)

SpecCatalog == Init /\ [][CatalogNext]_vars

-----------------------------------------------------------------------------
(* Properties of the chapter and lecture editor (SpecEditor) *)

IsBlank(s) == \A k \in 1..Len(s) : IsSpace(s[k])

\* C1: in every chapter the lectureOrder values, read in list order, are
\* 1, 2, ..., N, N the number of lectures of the chapter.
LectureOrdersContiguous ==
  \A i \in 1..Len(chapters) :
    \A k \in 1..Len(chapters[i].chapterContent) :
      chapters[i].chapterContent[k].lectureOrder = k

\* the first of two lectures of chapter 1 has been removed: the lecture that
\* was second is now the only one, with order 1
FirstLectureRemoved ==
  /\ lastOp = "removeLecture"
  /\ Len(chapters) = 1
  /\ chapters[1].chapterId = 1
  /\ Len(chapters[1].chapterContent) = 1
  /\ chapters[1].chapterContent[1].lectureId = 3
  /\ chapters[1].chapterContent[1].lectureOrder = 1

\* the details the claim calls invalid: a title that is empty or only
\* whitespace, a duration that is empty, 0 or negative, an empty URL
InvalidDetails(d) ==
  \/ IsBlank(d.lectureTitle)
  \/ d.lectureDuration \in {"", "0", "-1"}
  \/ d.lectureUrl = EmptyStr

LectureMessages == {MsgLectureTitle, MsgLectureDuration, MsgLectureUrl}

\* C9: saveLecture on invalid details shows a notification and changes
\* neither the chapters, nor the modal (open, for the same chapter), nor the
\* lecture draft.
SaveLectureRejectsInvalid ==
  [][(lastOp' = "saveLecture" /\ InvalidDetails(lectureDetails))
       => /\ toast' \in LectureMessages
          /\ chapters' = chapters
          /\ showPopup /\ showPopup'
          /\ currentChapterId' = currentChapterId
          /\ lectureDetails' = lectureDetails]_vars

\* a lecture with duration 0 has just been rejected, the modal still open
ZeroDurationRejected ==
  /\ lastOp = "saveLecture"
  /\ toast = MsgLectureDuration
  /\ showPopup
  /\ currentChapterId \in ChapterIds(chapters)
  /\ lectureDetails.lectureDuration = "0"
  /\ ~IsBlank(lectureDetails.lectureTitle)

\* details that pass: a title and a URL with a visible character, a
\* positive duration
ValidDetails(d) ==
  /\ ~IsBlank(d.lectureTitle)
  /\ d.lectureDuration = "5"
  /\ ~IsBlank(d.lectureUrl)

\* C10: saveLecture on valid details, the modal being open for a chapter of
\* the draft, appends one lecture at the end of that chapter with
\* lectureOrder one more than the chapter's lecture count, leaves the other
\* chapters as they are, closes the modal and clears the lecture draft.
SaveLectureAppends ==
  [][(/\ lastOp' = "saveLecture"
      /\ ValidDetails(lectureDetails)
      /\ currentChapterId \in ChapterIds(chapters))
       => /\ Len(chapters') = Len(chapters)
          /\ \A i \in 1..Len(chapters) :
               LET old == chapters[i].chapterContent
                   new == chapters'[i].chapterContent
               IN  IF chapters[i].chapterId = currentChapterId
                     THEN /\ Len(new) = Len(old) + 1
                          /\ SubSeq(new, 1, Len(old)) = old
                          /\ new[Len(new)].lectureOrder = Len(old) + 1
                          /\ [chapters'[i] EXCEPT !.chapterContent = old]
                               = chapters[i]
                     ELSE chapters'[i] = chapters[i]
          /\ showPopup' = FALSE
          /\ currentChapterId' = 0
          /\ lectureDetails' = EmptyLectureDetails]_vars

\* a lecture has just been saved into the second of two chapters
LectureSavedInSecondChapter ==
  /\ lastOp = "saveLecture"
  /\ toast = NoToast
  /\ ~showPopup
  /\ currentChapterId = 0
  /\ Len(chapters) = 2
  /\ chapters[1].chapterContent = <<>>
  /\ Len(chapters[2].chapterContent) = 1
  /\ chapters[2].chapterContent[1].lectureOrder = 1

-----------------------------------------------------------------------------
(* Properties of the submission (SpecBuilder) *)

\* the rules of submit(), each stated on the draft
TitleMissing == IsBlank(courseTitle)
ThumbnailMissing == image = NullFile
DescriptionMissing == IsBlank(editorHTML)
ChapterMissing == chapters = <<>>
LectureMissing ==
  \E i \in 1..Len(chapters) : chapters[i].chapterContent = <<>>

\* C4: every course-creation request carries a draft with a non-empty
\* trimmed title, a thumbnail, at least one chapter and at least one lecture
\* in every chapter.
PostedDraftsAreComplete ==
  \A i \in 1..Len(submits) :
    submits[i].pc = "post" =>
      LET data == submits[i].courseData
      IN  /\ data.courseTitle # EmptyStr
          /\ Trim(data.courseTitle) = data.courseTitle
          /\ submits[i].image # NullFile
          /\ Len(data.courseContent) >= 1
          /\ \A k \in 1..Len(data.courseContent) :
               Len(data.courseContent[k].chapterContent) >= 1

\* a request for a draft of two chapters is outstanding
TwoChapterDraftPosted ==
  \E i \in 1..Len(submits) :
    /\ submits[i].pc = "post"
    /\ Len(submits[i].courseData.courseContent) = 2
    /\ submits[i].courseData.courseTitle = <<"T">>

\* C5 as stated: submit() on a draft with no chapter shows the "add at least
\* one chapter" notification and starts no request.
NoChapterAlwaysReported ==
  [][(lastOp' = "submit" /\ ChapterMissing)
       => (toast' = MsgNoChapter /\ submits' = submits)]_vars

\* C5 as amended: submit() on a draft with no chapter starts no request and
\* shows a notification, which is the "add at least one chapter" one when
\* the title, the thumbnail and the description pass.
NoChapterBlocksSubmit ==
  [][(lastOp' = "submit" /\ ChapterMissing)
       => /\ submits' = submits
          /\ toast' # NoToast
          /\ (~TitleMissing /\ ~ThumbnailMissing /\ ~DescriptionMissing)
               => toast' = MsgNoChapter]_vars

\* submit() has just reported the missing chapter
NoChapterReported ==
  /\ lastOp = "submit"
  /\ toast = MsgNoChapter
  /\ chapters = <<>>
  /\ submits = <<>>
  /\ ~TitleMissing

\* the notification of the first failing rule, the rules taken in the order
\* title, description, thumbnail, chapter, lecture
FirstFailureAsStated ==
  IF TitleMissing THEN MsgCourseTitle
  ELSE IF DescriptionMissing THEN MsgDescription
  ELSE IF ThumbnailMissing THEN MsgThumbnail
  ELSE IF ChapterMissing THEN MsgNoChapter
  ELSE IF LectureMissing THEN MsgNoLecture
  ELSE NoToast

\* the same with the rules in the order title, thumbnail, description,
\* chapter, lecture
FirstFailure ==
  IF TitleMissing THEN MsgCourseTitle
  ELSE IF ThumbnailMissing THEN MsgThumbnail
  ELSE IF DescriptionMissing THEN MsgDescription
  ELSE IF ChapterMissing THEN MsgNoChapter
  ELSE IF LectureMissing THEN MsgNoLecture
  ELSE NoToast

\* C6 as stated: submit() reports the first failing rule in the order title,
\* description, thumbnail, chapter, lecture, and a failing submit is aborted.
RulesInStatedOrder ==
  [][lastOp' = "submit"
       => /\ toast' = FirstFailureAsStated
          /\ toast' # NoToast => submits' = submits]_vars

\* C6 as amended: submit() reports the first failing rule in the order
\* title, thumbnail, description, chapter, lecture, and a failing submit is
\* aborted.
RulesInCodeOrder ==
  [][lastOp' = "submit"
       => /\ toast' = FirstFailure
          /\ toast' # NoToast => submits' = submits]_vars

\* submit() on a draft lacking both thumbnail and description
ThumbnailReportedFirst ==
  /\ lastOp = "submit"
  /\ toast = MsgThumbnail
  /\ ThumbnailMissing
  /\ DescriptionMissing
  /\ ~TitleMissing

\* C7: when the request returns success the draft is empty: title "", price
\* 0, discount 0, no image, no preview, no chapter, empty editor.
SuccessResetsDraft ==
  lastOp = "submitSuccess"
    => /\ courseTitle = EmptyStr
       /\ coursePrice = 0
       /\ discount = 0
       /\ image = NullFile
       /\ imagePreview = 0
       /\ chapters = <<>>
       /\ editorHTML = EmptyHTML

\* a success has been handled for a draft that had a preview and chapters
DraftResetAfterSuccess ==
  /\ lastOp = "submitSuccess"
  /\ toast = MsgCourseAdded
  /\ uniq >= 2
  /\ urlCount >= 1
  /\ revoked[1] >= 1
  /\ chapters = <<>>
  /\ discount = 0

\* C8: when the request fails (success false, or an error) a notification is
\* shown and the draft is what it was.
FailureKeepsDraft ==
  [][lastOp' \in {"submitRefused", "submitThrows"}
       => /\ toast' \in {MsgServerError, MsgAddFailed}
          /\ courseTitle' = courseTitle
          /\ coursePrice' = coursePrice
          /\ discount' = discount
          /\ image' = image
          /\ imagePreview' = imagePreview
          /\ chapters' = chapters
          /\ editorHTML' = editorHTML]_vars

\* a refusal has been handled and the draft, every field of it set, still
\* passes the validation
DraftKeptAfterRefusal ==
  /\ lastOp = "submitRefused"
  /\ toast = MsgServerError
  /\ submits = <<>>
  /\ coursePrice = 100
  /\ discount = 10
  /\ imagePreview # 0
  /\ editorHTML = SomeHTML
  /\ Len(chapters) = 2
  /\ FirstFailure = NoToast

-----------------------------------------------------------------------------
(* Properties of the provider (SpecContext) *)

SignedOutState ==
  /\ userData = NullUserData
  /\ enrolledCourses = <<>>
  /\ isEducator = FALSE

\* C2: a profile fetch that resolves after the sign-out has cleared the
\* state leaves the state cleared.
StaleProfileNotWritten ==
  [][(/\ lastOp' = "userDataResponse"
      /\ isClerkReady /\ user = NoUser /\ ~effectPending
      /\ SignedOutState)
       => SignedOutState']_vars

\* C3: the effect run with the auth system ready and no user sets userData
\* to null, enrolledCourses to the empty list and isEducator to false in
\* that step, and starts no network call.
SignOutClearsAtOnce ==
  [][(lastOp' = "authEffect" /\ isClerkReady /\ user = NoUser)
       => (SignedOutState' /\ fetches' = fetches)]_vars

\* the state has been cleared while a profile request is still outstanding
ClearedWithFetchInFlight ==
  /\ lastOp = "authEffect"
  /\ isClerkReady
  /\ user = NoUser
  /\ SignedOutState
  /\ \E i \in 1..Len(fetches) :
       fetches[i].kind = "userData" /\ fetches[i].pc = "http"

-----------------------------------------------------------------------------
(* The thumbnail and its preview *)

\* C11: when setThumbnail accepts a file while a previous preview exists, a
\* new preview is created and the previous one has been released exactly
\* once, every URL.revokeObjectURL call made for it counted
PreviousPreviewReleasedOnce ==
  [][(/\ lastOp' = "setThumbnail"
      /\ toast' = NoToast
      /\ imagePreview # 0)
     => /\ urlCount' = urlCount + 1
        /\ imagePreview' = urlCount'
        /\ revoked'[imagePreview] = 1]_vars

\* C12: every created preview that is not released is the current preview
\* of the rendered component: at most one is unreleased at any time and
\* none once the component has been torn down
PreviewsReleased ==
  \A u \in 1..urlCount : revoked[u] = 0 => (mounted /\ u = imagePreview)

\* two previews were created, the component was torn down with a submission
\* in flight, and the submission has since succeeded
SuccessAfterTeardown ==
  /\ ~mounted
  /\ urlCount = 2
  /\ submits = <<>>
  /\ lastOp = "submitSuccess"

\* a file that is not an image, or is larger than 5 MB
BadFile(f) ==
  \/ Len(f.type) < 2
  \/ f.type[1] # "image"
  \/ f.type[2] # "/"
  \/ f.size > 5 * 1024 * 1024

\* C13: setThumbnail with a non-image file or a file over 5 MB notifies and
\* leaves image and imagePreview alone, creates no preview and releases
\* none; an image of at most 5 MB, exactly 5 MB included, is accepted
ThumbnailRejectsInvalid ==
  [][\A f \in Files :
       (mounted /\ SetThumbnail(f))
       => IF BadFile(f)
            THEN /\ toast' \in {MsgImageType, MsgImageSize}
                 /\ UNCHANGED <<image, imagePreview, urlCount, revoked>>
            ELSE /\ toast' = NoToast
                 /\ image' = f
                 /\ urlCount' = urlCount + 1
                 /\ imagePreview' = urlCount']_vars

\* a file over the limit has just been rejected and the thumbnail is still
\* the file of exactly 5 MB accepted before
OversizeRejectedAfterLimitFile ==
  /\ lastOp = "setThumbnail"
  /\ toast = MsgImageSize
  /\ image = PngLimit
  /\ imagePreview # 0

-----------------------------------------------------------------------------
(* The failure paths of fetchUserData *)

\* a minimal local profile of session user u
IsLocalProfileOf(ud, u) ==
  /\ DOMAIN ud = {"clerkId", "email", "firstName", "lastName",
                  "enrolledCourses"}
  /\ ud.clerkId = u
  /\ ud.email = <<u, "@">>
  /\ ud.firstName = <<u, "f">>
  /\ ud.lastName = <<u, "l">>
  /\ ud.enrolledCourses = <<>>

\* C14: when the profile request fails with status 401 userData becomes
\* null; when it fails with status 404 userData becomes a minimal local
\* profile built from the session user's claims, and no error is notified
ProfileFailureHandled ==
  [][\A i \in 1..Len(fetches) :
       /\ UserDataResponse(i, "401") => userData' = NullUserData
       /\ UserDataResponse(i, "404")
            => /\ IsLocalProfileOf(userData', fetches[i].user)
               /\ toast' = NoToast]_vars

\* a profile request has just failed with status 401 while a user is signed
\* in: the profile is null and the re-login notification is shown
ProfileClearedOn401 ==
  /\ lastOp = "userDataResponse"
  /\ toast = MsgAuthFailed
  /\ userData = NullUserData
  /\ user # NoUser
  /\ ~userDataLoading

\* C15: for every failure of the profile request other than 401 and 404 (an
\* error without such a status, or a response with success false or without
\* a user) a notification is shown and userData is left as it was
OtherProfileFailuresKeepUserData ==
  [][\A i \in 1..Len(fetches) : \A o \in {"nouser", "error"} :
       UserDataResponse(i, o)
       => /\ toast' # NoToast
          /\ userData' = userData]_vars

-----------------------------------------------------------------------------
(* The course catalog *)

\* C16: a successful response of fetchAllCourses replaces allCourses with
\* the returned courses; a failed request or a response with success false
\* notifies an error and leaves allCourses as it was
CatalogReplacedOrKept ==
  [][\A i \in 1..Len(fetches) :
       /\ \A c \in CatalogLists :
            CoursesLoaded(i, c) => allCourses' = c
       /\ CoursesFailed(i)
            => /\ toast' = MsgCoursesFailed
               /\ allCourses' = allCourses]_vars

\* a catalog request has just failed with a catalog already loaded
CatalogKeptAfterFailure ==
  /\ lastOp = "coursesFailed"
  /\ toast = MsgCoursesFailed
  /\ allCourses = <<"c1", "c2">>

-----------------------------------------------------------------------------
(* The enrollment list *)

\* C17: on a successful response of fetchUserEnrolledCourses enrolledCourses
\* becomes the reverse of the returned list and, if userData is non-null when
\* the response is handled, the enrolledCourses of userData becomes the
\* fetched list (in the order received or in the order displayed)
EnrollmentMergedIntoLoadedProfile ==
  [][\A i \in 1..Len(fetches) : \A l \in CourseLists :
       EnrolledLoaded(i, l)
       => /\ enrolledCourses' = Reverse(l)
          /\ userData # NullUserData
               => userData'.enrolledCourses \in {l, Reverse(l)}]_vars

-----------------------------------------------------------------------------
(* The order of the chapters *)

\* C18: after any sequence of addChapter and removeChapter the chapterOrder
\* values of the chapters, read in list order, are 1, 2, ..., N
ChapterOrdersContiguous ==
  \A i \in 1..Len(chapters) : chapters[i].chapterOrder = i

-----------------------------------------------------------------------------
(* The lecture count and the average rating *)

\* the lecture lists of a course, absent parts counted as empty
LectureLists(course) ==
  IF course.has /\ course.val.courseContent.has
    THEN [k \in 1..Len(course.val.courseContent.val) |->
            LET ch == course.val.courseContent.val[k]
            IN  IF ch.has /\ ch.val.chapterContent.has
                  THEN ch.val.chapterContent.val
                  ELSE <<>>]
    ELSE <<>>

\* the sum of the lengths of the lecture lists
TotalLength(lists) ==
  LET upTo[k \in 0..Len(lists)] ==
        IF k = 0 THEN 0 ELSE upTo[k - 1] + Len(lists[k])
  IN  upTo[Len(lists)]

\* C19: calculateNoOfLectures returns the sum of the lecture-list lengths
\* over the chapters of the course, and 0 when the course, its chapter list
\* or a chapter's lecture list is absent
LectureCountIsTotal ==
  lastOp = "calculateNoOfLectures"
    => calcResult = Number(TotalLength(LectureLists(calcCourse)))

\* the ratings of a course, an absent list counted as empty
RatingsOf(course) ==
  IF course.has /\ course.val.courseRatings.has
    THEN course.val.courseRatings.val
    ELSE <<>>

RatingTotal(ratings) ==
  LET upTo[k \in 0..Len(ratings)] ==
        IF k = 0 THEN 0 ELSE upTo[k - 1] + ratings[k].rating
  IN  upTo[Len(ratings)]

DigitValue(c) == CHOOSE d \in 0..9 : Digit(d) = c

\* the number of tenths a result written as "d.d" stands for
TenthsOf(result) ==
  10 * DigitValue(result.chars[1]) + DigitValue(result.chars[3])

Distance(a, b) == IF a >= b THEN a - b ELSE b - a

\* C20: calculateRating returns 0 for a course without ratings; otherwise it
\* returns the average rating written with one decimal, the nearest tenth to
\* sum / count, which is 4.0 for the ratings 3, 4, 5
RatingIsRoundedAverage ==
  lastOp = "calculateRating"
    => LET ratings == RatingsOf(calcCourse)
       IN  IF ratings = <<>>
             THEN calcResult = Number(0)
             ELSE /\ calcResult.kind = "string"
                  /\ Len(calcResult.chars) = 3
                  /\ calcResult.chars[2] = "."
                  /\ 2 * Distance(10 * RatingTotal(ratings),
                                  TenthsOf(calcResult) * Len(ratings))
                       <= Len(ratings)
                  /\ (ratings = <<Rating(3), Rating(4), Rating(5)>>
                        => calcResult.chars = <<"4", ".", "0">>)

\* calculateRating has been called on a course rated 3, 4 and 5
RatingOfThreeFourFive ==
  /\ lastOp = "calculateRating"
  /\ RatingsOf(calcCourse) = <<Rating(3), Rating(4), Rating(5)>>
  /\ calcResult = String(<<"4", ".", "0">>)

-----------------------------------------------------------------------------
(* Overlapping profile fetches *)

\* C21: profile and enrollment fetches are neither deduplicated nor
\* cancelled: a change of session and its effect leave every call in flight
\* in flight, and a profile response written to userData is the profile of
\* the user its call was made for, whoever is signed in when it is handled,
\* so that the response handled last wins
FetchesRaceLastWriteWins ==
  [][/\ lastOp' \in {"signIn", "signOut", "authEffect"}
          => /\ Len(fetches') >= Len(fetches)
             /\ \A i \in 1..Len(fetches) : fetches'[i] = fetches[i]
     /\ \A i \in 1..Len(fetches) :
          UserDataResponse(i, "user")
            => /\ userData'._id = fetches[i].user
               /\ userData'.clerkId = fetches[i].user]_vars

\* every response of a sign-in of A, a sign-out and a sign-in of B has been
\* handled, the profile of A last: B is signed in with the profile of A
ProfileOfAWhileBSignedIn ==
  /\ user = "B"
  /\ lastOp = "userDataResponse"
  /\ UserFetches(fetches) = <<>>
  /\ ~effectPending
  /\ userData = [_id |-> "A", clerkId |-> "A", enrolledCourses |-> <<>>]

-----------------------------------------------------------------------------
(* The loading flag of the profile *)

ProfileFetchInFlight ==
  \E i \in 1..Len(fetches) : fetches[i].kind = "userData"

\* C28: whenever no fetchUserData call is in flight userDataLoading is false
LoadingOnlyWhileFetching ==
  ~ProfileFetchInFlight => ~userDataLoading

\* the last profile call in flight has just failed after a sign-out and the
\* effect that followed it
ProfileFailedAfterSignOut ==
  /\ lastOp = "userDataResponse"
  /\ toast = MsgProfileFailed
  /\ user = NoUser
  /\ ~effectPending
  /\ ~ProfileFetchInFlight
  /\ ~userDataLoading

-----------------------------------------------------------------------------
(* Overlapping submissions *)

\* the course-creation requests sent and not yet answered
OutstandingRequests == {i \in 1..Len(submits) : submits[i].pc = "post"}

\* C22: while a course-creation request is in flight no second submit is
\* started: at most one handleSubmit call is in progress, at most one
\* request is outstanding, and no draft is posted twice
OneSubmissionAtATime ==
  /\ Len(submits) <= 1
  /\ Cardinality(OutstandingRequests) <= 1

-----------------------------------------------------------------------------
(* The chapter list operations *)

ChapterOrders(chs) == {chs[i].chapterOrder : i \in 1..Len(chs)}

MaxChapterOrder(chs) ==
  IF chs = <<>> THEN 0
  ELSE CHOOSE m \in ChapterOrders(chs) : \A n \in ChapterOrders(chs) : n <= m

\* C23: addChapter with a non-empty title appends one chapter at the end,
\* with no lectures, collapsed false and chapterOrder one more than the
\* largest chapterOrder of the draft (1 for an empty draft), so that the
\* chapterOrder values are pairwise distinct; with an empty or cancelled
\* title the chapters are unchanged
AddChapterAppendsNextOrder ==
  [][\A r \in PromptResults :
       AddChapter(r)
       => IF ~r.cancelled /\ r.text # <<>>
            THEN /\ Len(chapters') = Len(chapters) + 1
                 /\ \A j \in 1..Len(chapters) : chapters'[j] = chapters[j]
                 /\ chapters'[Len(chapters')].chapterTitle = r.text
                 /\ chapters'[Len(chapters')].chapterContent = <<>>
                 /\ chapters'[Len(chapters')].collapsed = FALSE
                 /\ chapters'[Len(chapters')].chapterOrder
                      = MaxChapterOrder(chapters) + 1
                 /\ chapters'[Len(chapters')].chapterId
                      \notin ChapterIds(chapters)
                 /\ Cardinality(ChapterOrders(chapters')) = Len(chapters')
            ELSE chapters' = chapters]_vars

\* a chapter has just been added to a draft whose first chapter was removed
ChapterAddedAfterGap ==
  /\ lastOp = "addChapter"
  /\ Len(chapters) = 2
  /\ chapters[1].chapterOrder = 2
  /\ chapters[2].chapterOrder = 3

\* the position of the chapter with the given id, 0 when there is none
ChapterIndex(chs, id) ==
  IF id \in ChapterIds(chs)
    THEN CHOOSE i \in 1..Len(chs) : chs[i].chapterId = id
    ELSE 0

\* C24: removeChapter(id) removes the chapter with that id and leaves the
\* other chapters as they are, in the same order and with their chapterOrder
\* values not renumbered; with no chapter of that id the list is unchanged
RemoveChapterKeepsOthers ==
  [][\A id \in 1..MaxTokens :
       RemoveChapter(id)
       => LET k == ChapterIndex(chapters, id)
          IN  IF k = 0
                THEN chapters' = chapters
                ELSE /\ Len(chapters') = Len(chapters) - 1
                     /\ \A j \in 1..Len(chapters') :
                          chapters'[j] = IF j < k THEN chapters[j]
                                         ELSE chapters[j + 1]]_vars

\* the first of two chapters has just been removed: the chapter left has
\* chapterOrder 2
FirstChapterRemoved ==
  /\ lastOp = "removeChapter"
  /\ Len(chapters) = 1
  /\ chapters[1].chapterOrder = 2

\* what a lecture is, apart from its lectureOrder
LectureData(l) ==
  <<l.lectureId, l.lectureTitle, l.lectureDuration, l.lectureUrl,
    l.isPreviewFree>>

\* C25: removeLecture(chapterId, index) removes the lecture at that position
\* of that chapter, keeps the other lectures of the chapter in their order
\* with title, duration, URL and preview flag unchanged, and leaves every
\* other chapter unchanged
RemoveLectureKeepsOthers ==
  [][\A i \in 1..Len(chapters) :
       \A pos \in 1..Len(chapters[i].chapterContent) :
         RemoveLecture(chapters[i].chapterId, pos)
         => /\ Len(chapters') = Len(chapters)
            /\ \A k \in 1..Len(chapters) : k # i => chapters'[k] = chapters[k]
            /\ [chapters'[i] EXCEPT !.chapterContent = <<>>]
                 = [chapters[i] EXCEPT !.chapterContent = <<>>]
            /\ Len(chapters'[i].chapterContent)
                 = Len(chapters[i].chapterContent) - 1
            /\ \A j \in 1..Len(chapters'[i].chapterContent) :
                 LectureData(chapters'[i].chapterContent[j])
                   = LectureData(chapters[i].chapterContent[
                                   IF j < pos THEN j ELSE j + 1])]_vars

\* the first of two lectures of a chapter has just been removed: the lecture
\* left is the one saved second
FirstOfTwoLecturesRemoved ==
  /\ lastOp = "removeLecture"
  /\ Len(chapters) = 1
  /\ Len(chapters[1].chapterContent) = 1
  /\ chapters[1].chapterContent[1].lectureId = 3

\* C26: toggleChapter(id) negates the collapsed flag of the chapter with
\* that id and changes nothing else in the chapters or in the other fields
\* of the draft; a second toggle of the same id restores the chapters
ToggleFlipsOnlyCollapsed ==
  [][\A id \in ChapterIds(chapters) :
       ToggleChapter(id)
       => /\ Len(chapters') = Len(chapters)
          /\ \A k \in 1..Len(chapters) :
               /\ [chapters'[k] EXCEPT !.collapsed = FALSE]
                    = [chapters[k] EXCEPT !.collapsed = FALSE]
               /\ chapters'[k].collapsed
                    = IF chapters[k].chapterId = id
                        THEN ~chapters[k].collapsed
                        ELSE chapters[k].collapsed
          /\ UNCHANGED <<courseTitle, coursePrice, discount, image,
                         imagePreview, showPopup, currentChapterId,
                         lectureDetails, editorHTML>>
          /\ ToggledChapters(chapters', id) = chapters]_vars

\* the second of two chapters has just been collapsed, the first left open
SecondChapterCollapsed ==
  /\ lastOp = "toggleChapter"
  /\ Len(chapters) = 2
  /\ ~chapters[1].collapsed
  /\ chapters[2].collapsed

-----------------------------------------------------------------------------
(* The payload and the collapsed flags *)

\* C27: the collapsed flag is display state only: the draft just submitted
\* and any draft that differs from it in the collapsed flag of a chapter
\* give the same course-creation payload
PayloadIgnoresCollapsed ==
  (lastOp = "submit" /\ toast = NoToast /\ submits # <<>>)
    => \A id \in ChapterIds(chapters) :
         CourseData(courseTitle, editorHTML, coursePrice, discount,
                    ToggledChapters(chapters, id))
           = submits[Len(submits)].courseData

=============================================================================
